---- MODULE Spec2Model ----
(***************************************************************************)
(* Model of the WoWs ship catalogue pipeline (src/main.py):                *)
(*   update_cache_full / load_or_update_cache / main   - catalogue cache   *)
(*   is_buyable_or_researchable                        - eligibility       *)
(*   build_tiers_and_images                            - tier buckets      *)
(*   guess_image_url_from_shipdata / download_image    - image mirror      *)
(*                                                                         *)
(* Python values are tagged pairs <<tag, n>> so that values of different   *)
(* Python types stay comparable:                                           *)
(*   <<"missing",0>>  key not present (dict.get gives None)                *)
(*   <<"bool",b>>     False / True  (b = 0 / 1)                            *)
(*   <<"int",n>>      the integer n                                        *)
(*   <<"numstr",n>>   the string holding the decimal digits of n           *)
(*   <<"str",k>>      a string that is not a numeral; k = 0 is ""          *)
(***************************************************************************)
EXTENDS Integers, Sequences, FiniteSets, TLC

VARIABLES
    pc,          \* position of the running program
    rec,         \* sdata: the record handed to is_buyable_or_researchable
    result,      \* its return value
    cacheFile,   \* ships_cache.json on disk
    entryFile,   \* history: cacheFile when update_cache_full was entered
    cache,       \* the cache dict being built by update_cache_full
    mcache,      \* main's local variable cache
    page,        \* update_cache_full's local variable page
    retTo,       \* who called update_cache_full
    events,      \* history: list calls (page numbers) and sleeps, in order
    responses,   \* history: the list responses received, in order
    rebuilds,    \* history: number of update_cache_full invocations in this run
    built,       \* history: the cache handed to build_tiers_and_images
    idx,         \* build_tiers_and_images: position in cache.items()
    tiers,       \* build_tiers_and_images: the ten buckets
    tierFiles,   \* tiers/tier_{n}.json on disk
    files,       \* images/ on disk: output path -> content
    files0,      \* history: images/ when the run started
    attempts,    \* history: the image requests sent, in order
    call         \* history: the last download_image call and its return value

vars == <<pc, rec, result, cacheFile, entryFile, cache, mcache, page, retTo,
          events, responses, rebuilds, built, idx, tiers, tierFiles, files,
          files0, attempts, call>>

(***************************************************************************)
(* Python values                                                           *)
(***************************************************************************)
Missing == <<"missing", 0>>
PyTrue == <<"bool", 1>>
PyFalse == <<"bool", 0>>
PyInt(n) == <<"int", n>>
NumStr(n) == <<"numstr", n>>
PyStr(k) == <<"str", k>>

\* bool(v)
Truthy(v) ==
    CASE v[1] = "missing" -> FALSE
      [] v[1] = "bool" -> v[2] = 1
      [] v[1] = "int" -> v[2] # 0
      [] v[1] = "numstr" -> TRUE
      [] v[1] = "str" -> v[2] # 0

\* a or b
PyOr(a, b) == IF Truthy(a) THEN a ELSE b

\* isinstance(v, (int, float)) and v > 0
PositiveNumber(v) == v[1] \in {"int", "bool"} /\ v[2] > 0

\* str(v), as an f-string formats it: the numeral of an int and the string
\* holding the same digits give the same text
Text(v) ==
    CASE v[1] = "int" -> <<"digits", v[2]>>
      [] v[1] = "numstr" -> <<"digits", v[2]>>
      [] v[1] = "bool" -> <<"word", v[2]>>
      [] v[1] = "str" -> <<"chars", v[2]>>
      [] v[1] = "missing" -> <<"word", 2>>

(***************************************************************************)
(* Records.  A dict-valued field (price, prices, images) is a record with  *)
(* a presence flag and one entry per key.                                  *)
(***************************************************************************)
NoPrice == [present |-> FALSE, credit |-> Missing, gold |-> Missing]
PriceDict(c, g) == [present |-> TRUE, credit |-> c, gold |-> g]

\* A URL-valued field: kind "missing" (no such key), "empty" (the string "")
\* or "url"; for a url, whether it starts with "http", the extension of its
\* path before any "?" ("" when it has none), and a number telling two
\* URLs apart.
NoUrl == [kind |-> "missing", http |-> FALSE, ext |-> "", host |-> 0]
EmptyUrl == [kind |-> "empty", http |-> FALSE, ext |-> "", host |-> 0]
Url(h, e, n) == [kind |-> "url", http |-> h, ext |-> e, host |-> n]
NoImages == [present |-> FALSE, large |-> NoUrl, small |-> NoUrl, other |-> NoUrl]

EmptyRecord ==
    [ship_id |-> Missing, name |-> Missing, localized_name |-> Missing,
     ship_name |-> Missing, type |-> Missing, ship_type |-> Missing,
     tier |-> Missing, level |-> Missing,
     is_premium |-> Missing, is_collectible |-> Missing, is_special |-> Missing,
     is_researchable |-> Missing,
     price |-> NoPrice, prices |-> NoPrice,
     price_credit |-> Missing, price_gold |-> Missing,
     images |-> NoImages, image |-> NoUrl, icon |-> NoUrl]

\* not sdata
IsEmpty(s) == s = EmptyRecord

\* a dict-valued price field is truthy when it is present and has an entry
PriceTruthy(p) == p.present /\ (p.credit # Missing \/ p.gold # Missing)

\* sdata.get("price") or sdata.get("prices")
PriceOf(s) == IF PriceTruthy(s.price) THEN s.price ELSE s.prices

\* any(isinstance(v, (int, float)) and v > 0 for v in price.values())
HasPositiveEntry(p) ==
    PriceTruthy(p) /\ (PositiveNumber(p.credit) \/ PositiveNumber(p.gold))

is_buyable_NoPremiumCheck(s) ==
    IF IsEmpty(s) THEN FALSE
    ELSE IF Truthy(s.is_collectible) \/ Truthy(s.is_special) THEN FALSE
    ELSE IF s.is_researchable = PyTrue THEN TRUE
    ELSE IF HasPositiveEntry(PriceOf(s)) THEN TRUE
    ELSE PositiveNumber(s.price_credit) \/ PositiveNumber(s.price_gold)

is_buyable_or_researchable(s) ==
    IF IsEmpty(s) THEN FALSE
    ELSE IF s.is_premium = PyTrue THEN FALSE
    ELSE IF Truthy(s.is_collectible) \/ Truthy(s.is_special) THEN FALSE
    ELSE IF s.is_researchable = PyTrue THEN TRUE
    ELSE IF HasPositiveEntry(PriceOf(s)) THEN TRUE
    ELSE PositiveNumber(s.price_credit) \/ PositiveNumber(s.price_gold)

(***************************************************************************)
(* Tier resolution (build_tiers_and_images, the head of the loop body)     *)
(***************************************************************************)
\* int(v) inside try/except: None (Missing) when v is None or int() raises
ToInt(v) ==
    CASE v[1] = "missing" -> Missing
      [] v[1] = "bool" -> PyInt(v[2])
      [] v[1] = "int" -> PyInt(v[2])
      [] v[1] = "numstr" -> PyInt(v[2])
      [] v[1] = "str" -> Missing

\* tier = s.get("tier"); if tier is None: tier = s.get("level"); int(tier)
ResolveTier(s) == ToInt(IF s.tier = Missing THEN s.level ELSE s.tier)

\* not (not tier or not (1 <= tier <= 10))
TierInRange(t) == Truthy(t) /\ 1 <= t[2] /\ t[2] <= 10

(***************************************************************************)
(* Bounds                                                                  *)
(***************************************************************************)
\* ships known upstream; cache keys and ship_id values are 1..NumShips
NumShips == 2
\* largest page_total a list response reports
MaxPageTotal == 3
\* image requests a sequence of direct download_image calls may send
MaxRequests == 2

ShipNums == 1..NumShips

(***************************************************************************)
(* Image URL resolution and the image mirror                               *)
(***************************************************************************)
\* if url: (a non-empty string)
UrlTruthy(u) == u.kind = "url"

\* isinstance(url, str) and url.startswith("http")
HttpUrl(u) == u.kind = "url" /\ u.http

guess_image_url_from_shipdata(s) ==
    IF IsEmpty(s) THEN NoUrl
    ELSE IF s.images.present /\ UrlTruthy(s.images.large) THEN s.images.large
    ELSE IF s.images.present /\ UrlTruthy(s.images.small) THEN s.images.small
    ELSE IF s.images.present /\ HttpUrl(s.images.other) THEN s.images.other
    ELSE IF HttpUrl(s.image) THEN s.image
    ELSE IF HttpUrl(s.icon) THEN s.icon
    ELSE NoUrl

\* os.path.splitext(img_url.split("?")[0])[1] or ".jpg"
ExtOf(u) == IF u.ext = "" THEN ".jpg" ELSE u.ext

Exts == {".png", ".jpg"}

\* images/ship_{ship_id}{ext}: the text of the identifier and the extension
FileName(id, u) == <<Text(id), ExtOf(u)>>
NoFileName == <<<<"none", 0>>, "">>
Paths == {<<<<"digits", n>>, e>> : n \in ShipNums, e \in Exts}

\* File contents: "absent", "old" (there before the run), "new" (a complete
\* download), "partial" (what a download wrote before the stream broke)
Exists_WrongPath(path, fs) == FALSE

\* os.path.exists(out_path)
Exists(path, fs) == fs[path] # "absent"

\* What one request can do: "ok"; "refused" (requests.get or raise_for_status
\* raises, nothing is opened); "broken" (iter_content raises after
\* open(out_path, "wb"))
Outcomes == {"ok", "refused", "broken"}

download_image_NoExistsCheck(u, path, outcome, fs) ==
    IF ~UrlTruthy(u) THEN [ret |-> FALSE, sent |-> FALSE, files |-> fs]
    ELSE IF outcome = "ok"
         THEN [ret |-> TRUE, sent |-> TRUE, files |-> [fs EXCEPT ![path] = "new"]]
    ELSE IF outcome = "broken"
         THEN [ret |-> FALSE, sent |-> TRUE, files |-> [fs EXCEPT ![path] = "partial"]]
    ELSE [ret |-> FALSE, sent |-> TRUE, files |-> fs]

\* download_image(url, out_path): the return value, whether a request was
\* sent, and images/ afterwards
download_image(u, path, outcome, fs) ==
    IF ~UrlTruthy(u) THEN [ret |-> FALSE, sent |-> FALSE, files |-> fs]
    ELSE IF Exists(path, fs) THEN [ret |-> TRUE, sent |-> FALSE, files |-> fs]
    ELSE IF outcome = "ok"
         THEN [ret |-> TRUE, sent |-> TRUE, files |-> [fs EXCEPT ![path] = "new"]]
    ELSE IF outcome = "broken"
         THEN [ret |-> FALSE, sent |-> TRUE, files |-> [fs EXCEPT ![path] = "partial"]]
    ELSE [ret |-> FALSE, sent |-> TRUE, files |-> fs]

NoCall == [seq |-> 0, url |-> NoUrl, path |-> NoFileName, existed |-> FALSE,
           ret |-> FALSE]

\* the history a download_image call leaves
CallOf(u, path, fs, d) ==
    [seq |-> 1 - call.seq, url |-> u, path |-> path,
     existed |-> fs[path] # "absent", ret |-> d.ret]

AttemptsAfter(key, u, path, outcome, d) ==
    IF d.sent
    THEN Append(attempts, [key |-> key, url |-> u, path |-> path, outcome |-> outcome])
    ELSE attempts

(***************************************************************************)
(* build_tiers_and_images                                                  *)
(***************************************************************************)
\* A cache is cache.items() in order: a sequence of items with distinct
\* keys.  sid n is the key holding the digits of n; kind is "dict" for a
\* record value and "int" for a number (the old name -> id cache layout).
Item(n, val) == [sid |-> n, kind |-> val.kind, v |-> val.v]
RecordValue(r) == [kind |-> "dict", v |-> r]
IntValue == [kind |-> "int", v |-> EmptyRecord]

RECURSIVE CachesOver(_, _)
CachesOver(keys, Vals) ==
    {<<>>} \cup UNION {{<<Item(k, x)>> \o c : c \in CachesOver(keys \ {k}, Vals)} :
                        k \in keys, x \in Vals}

Tiers == 1..10
EmptyTiers == [t \in Tiers |-> <<>>]
NoTierFiles == [t \in Tiers |-> [written |-> FALSE, content |-> <<>>]]

\* download_images, the parameter main passes (and the default)
DownloadImages == TRUE

BucketOf_NoEligibility(s) ==
    LET t == ResolveTier(s) IN IF TierInRange(t) THEN t[2] ELSE 0

\* The bucket the loop body appends the record to; 0 when it hits one of the
\* two `continue`s
BucketOf(s) ==
    LET t == ResolveTier(s)
    IN IF TierInRange(t) /\ is_buyable_or_researchable(s) THEN t[2] ELSE 0

\* ship_entry as first built; key is history (the cache key of the record)
ShipEntry(sid, s, t) ==
    [key |-> sid,
     ship_id |-> PyOr(s.ship_id, NumStr(sid)),
     name |-> PyOr(PyOr(s.name, s.localized_name), s.ship_name),
     tier |-> t,
     type |-> PyOr(s.type, s.ship_type),
     image_url |-> NoUrl,
     image |-> NoFileName]

EntryAfterDownload_KeepImage(e, ok) == e

\* if not ok: ship_entry.pop("image", None)
EntryAfterDownload(e, ok) == IF ok THEN e ELSE [e EXCEPT !.image = NoFileName]

\* one iteration of `for sid, s in cache.items()`
BuildStep(outcome) ==
    /\ pc = "build"
    /\ idx <= Len(built)
    /\ LET it == built[idx]
           b == BucketOf(it.v)
           e0 == ShipEntry(it.sid, it.v, b)
           u == guess_image_url_from_shipdata(it.v)
           path == FileName(e0.ship_id, u)
           e1 == [e0 EXCEPT !.image_url = u, !.image = path]
           d == download_image(u, path, outcome, files)
       IN IF it.kind # "dict"
          THEN /\ pc' = "AttributeError"
               /\ UNCHANGED <<idx, tiers, files, attempts, call>>
          ELSE /\ pc' = pc
               /\ idx' = idx + 1
               /\ IF b = 0
                  THEN UNCHANGED <<tiers, files, attempts, call>>
                  ELSE IF ~UrlTruthy(u)
                  THEN /\ tiers' = [tiers EXCEPT ![b] = Append(@, e0)]
                       /\ UNCHANGED <<files, attempts, call>>
                  ELSE IF DownloadImages /\ ~Exists(path, files)
                  THEN /\ tiers' = [tiers EXCEPT
                                      ![b] = Append(@, EntryAfterDownload(e1, d.ret))]
                       /\ files' = d.files
                       /\ attempts' = AttemptsAfter(it.sid, u, path, outcome, d)
                       /\ call' = CallOf(u, path, files, d)
                  ELSE /\ tiers' = [tiers EXCEPT ![b] = Append(@, e1)]
                       /\ UNCHANGED <<files, attempts, call>>
    /\ UNCHANGED <<rec, result, cacheFile, entryFile, cache, mcache, page, retTo,
                   events, responses, rebuilds, built, tierFiles, files0>>

\* for t in range(1, 11): save_json(tiers/tier_{t}.json, tiers[t]); return
SaveTiers ==
    /\ pc = "build"
    /\ idx > Len(built)
    /\ tierFiles' = [t \in Tiers |-> [written |-> TRUE, content |-> tiers[t]]]
    /\ pc' = "done"
    /\ UNCHANGED <<rec, result, cacheFile, entryFile, cache, mcache, page, retTo,
                   events, responses, rebuilds, built, idx, tiers, files, files0,
                   attempts, call>>

(***************************************************************************)
(* update_cache_full, load_or_update_cache, main                           *)
(***************************************************************************)
\* What the encyclopedia holds for ship n.  Ship 1 is a researchable tier 5
\* ship with an image; ship 2 is a premium ship whose record carries no
\* ship_id; every other ship is bought with credits.
CatalogRecord(n) ==
    IF n = 1
    THEN [EmptyRecord EXCEPT !.ship_id = PyInt(1), !.name = PyStr(1),
                             !.type = PyStr(2), !.tier = PyInt(5),
                             !.is_researchable = PyTrue,
                             !.image = Url(TRUE, ".png", 1)]
    ELSE IF n = 2
    THEN [EmptyRecord EXCEPT !.name = PyStr(3), !.tier = PyInt(8),
                             !.is_premium = PyTrue]
    ELSE [EmptyRecord EXCEPT !.ship_id = PyInt(n), !.name = PyStr(4),
                             !.tier = PyInt(3),
                             !.price = PriceDict(PyInt(1000), PyInt(0))]

\* data of a list response: ship ids in the order of the JSON object
RECURSIVE PageDatas(_)
PageDatas(keys) ==
    {<<>>} \cup UNION {{<<k>> \o c : c \in PageDatas(keys \ {k})} : k \in keys}

\* meta.page_total of a list response: absent, or a number
PageTotals == {Missing} \cup {PyInt(n) : n \in 0..MaxPageTotal}

\* the list responses: status "ok" with data and meta, or an error status
Responses ==
    {[status |-> "ok", data |-> d, page_total |-> pt] :
        d \in PageDatas(ShipNums), pt \in PageTotals}
    \cup {[status |-> "error", data |-> <<>>, page_total |-> Missing]}

\* meta.get("page_total", 1)
PageTotalOf(pt) == IF pt = Missing THEN 1 ELSE pt[2]

IndexOf(c, n) == CHOOSE i \in 1..Len(c) : c[i].sid = n

\* cache[sid] = sdata: an existing key keeps its place, a new one goes last
DictSet(c, it) ==
    IF \E i \in 1..Len(c) : c[i].sid = it.sid
    THEN [c EXCEPT ![IndexOf(c, it.sid)] = it]
    ELSE Append(c, it)

RECURSIVE Merge(_, _)
Merge_Replace(c, data) ==
    [i \in 1..Len(data) |-> Item(data[i], RecordValue(CatalogRecord(data[i])))]

\* for sid, sdata in ships.items(): cache[sid] = sdata
Merge(c, data) ==
    IF data = <<>> THEN c
    ELSE Merge(DictSet(c, Item(Head(data), RecordValue(CatalogRecord(Head(data))))),
               Tail(data))

\* contents of ships_cache.json: kind "absent" (no file), "null", "list"
\* (JSON that is not an object) or "dict" with its items
FileOf(kind, items) == [kind |-> kind, items |-> items]
NoResponses == [count |-> 0, totals |-> {}, ids |-> {}, bad |-> FALSE]

\* entering update_cache_full from `from`
EnterUpdate(from) ==
    /\ pc' = "fetch"
    /\ page' = 1
    /\ cache' = <<>>
    /\ retTo' = from
    /\ entryFile' = cacheFile
    /\ responses' = NoResponses
    /\ rebuilds' = rebuilds + 1

\* entering build_tiers_and_images(c)
EnterBuild(c) ==
    /\ pc' = "build"
    /\ built' = c
    /\ idx' = 1
    /\ tiers' = EmptyTiers

\* update_cache_full returns c to its caller
ReturnCache(c) ==
    IF retTo = "load"
    THEN /\ pc' = "validate"
         /\ mcache' = FileOf("dict", c)
         /\ UNCHANGED <<built, idx, tiers>>
    ELSE IF retTo = "validate"
    THEN /\ EnterBuild(c)
         /\ mcache' = FileOf("dict", c)
    ELSE /\ pc' = "returned"
         /\ mcache' = FileOf("dict", c)
         /\ UNCHANGED <<built, idx, tiers>>

StatusOk_Always(status) == TRUE

\* not (data.get("status") != "ok")
StatusOk(status) == status = "ok"

\* page >= page_total
IsLastPage(p, total) == p >= total

\* get_ships_page raises (requests.get or raise_for_status)
FetchFails ==
    /\ pc = "fetch"
    /\ events' = Append(events, <<"list", page>>)
    /\ pc' = "TransportError"
    /\ UNCHANGED <<rec, result, cacheFile, entryFile, cache, mcache, page, retTo,
                   responses, rebuilds, built, idx, tiers, tierFiles, files,
                   files0, attempts, call>>

\* one iteration of `while True`: the list call, the status check, the
\* merge, and then either the sleep before the next page or, after the last
\* page, save_json(CACHE_FILE, cache) and the return
FetchPage(status, data, pt) ==
    /\ pc = "fetch"
    /\ IF ~StatusOk(status)
       THEN /\ events' = Append(events, <<"list", page>>)
            /\ responses' = [responses EXCEPT !.count = @ + 1, !.bad = TRUE]
            /\ pc' = "RuntimeError"
            /\ UNCHANGED <<cache, page, cacheFile, mcache, built, idx, tiers>>
       ELSE LET c == Merge(cache, data)
            IN /\ cache' = c
               /\ responses' = [responses EXCEPT
                                  !.count = @ + 1,
                                  !.totals = @ \cup {pt},
                                  !.ids = @ \cup {data[i] : i \in 1..Len(data)},
                                  !.bad = @ \/ status # "ok"]
               /\ IF IsLastPage(page, PageTotalOf(pt))
                  THEN /\ events' = Append(events, <<"list", page>>)
                       /\ cacheFile' = FileOf("dict", c)
                       /\ ReturnCache(c)
                       /\ page' = page
                  ELSE /\ events' = events \o <<<<"list", page>>, <<"sleep", 0>>>>
                       /\ page' = page + 1
                       /\ pc' = pc
                       /\ UNCHANGED <<cacheFile, mcache, built, idx, tiers>>
    /\ UNCHANGED <<rec, result, entryFile, retTo, rebuilds, tierFiles, files,
                   files0, attempts, call>>

\* "ship_id" in v, for the values in order until the first hit, as any()
\* evaluates it: "TypeError" when it reaches a number first
RECURSIVE AnyShipId(_)
AnyShipId(items) ==
    IF items = <<>> THEN "False"
    ELSE IF Head(items).kind # "dict" THEN "TypeError"
    ELSE IF Head(items).v.ship_id # Missing THEN "True"
    ELSE AnyShipId(Tail(items))

\* main up to the return of load_or_update_cache(force_update=False)
LoadOrUpdate ==
    /\ pc = "main"
    /\ IF cacheFile.kind \in {"absent", "null"}
       THEN /\ EnterUpdate("load")
            /\ UNCHANGED mcache
       ELSE /\ pc' = "validate"
            /\ mcache' = cacheFile
            /\ UNCHANGED <<page, cache, retTo, entryFile, responses, rebuilds>>
    /\ UNCHANGED <<rec, result, cacheFile, events, built, idx, tiers, tierFiles,
                   files, files0, attempts, call>>

\* main's check of the cache, and what follows it
Validate ==
    /\ pc = "validate"
    /\ LET any == IF mcache.kind = "dict" THEN AnyShipId(mcache.items) ELSE "False"
       IN IF any = "TypeError"
          THEN /\ pc' = "TypeError"
               /\ UNCHANGED <<page, cache, retTo, entryFile, responses, rebuilds,
                              built, idx, tiers>>
          ELSE IF mcache.kind # "dict" \/ any = "False"
          THEN /\ EnterUpdate("validate")
               /\ UNCHANGED <<built, idx, tiers>>
          ELSE /\ EnterBuild(mcache.items)
               /\ UNCHANGED <<page, cache, retTo, entryFile, responses, rebuilds>>
    /\ UNCHANGED <<rec, result, cacheFile, mcache, events, tierFiles, files,
                   files0, attempts, call>>

(***************************************************************************)
(* Direct calls of the two functions other code may call on its own        *)
(***************************************************************************)
\* is_buyable_or_researchable(rec)
Classify ==
    /\ pc = "classify"
    /\ result' = is_buyable_or_researchable(rec)
    /\ pc' = "classified"
    /\ UNCHANGED <<rec, cacheFile, entryFile, cache, mcache, page, retTo, events,
                   responses, rebuilds, built, idx, tiers, tierFiles, files,
                   files0, attempts, call>>

\* download_image(u, path)
CallDownloadImage(u, path, outcome) ==
    /\ pc = "mirror"
    /\ Len(attempts) < MaxRequests
    /\ LET d == download_image(u, path, outcome, files)
       IN /\ files' = d.files
          /\ attempts' = AttemptsAfter(0, u, path, outcome, d)
          /\ call' = CallOf(u, path, files, d)
    /\ UNCHANGED <<pc, rec, result, cacheFile, entryFile, cache, mcache, page,
                   retTo, events, responses, rebuilds, built, idx, tiers,
                   tierFiles, files0>>

(***************************************************************************)
(* Inputs                                                                  *)
(***************************************************************************)
Flags == {Missing, PyTrue, PyFalse}
PriceChoices ==
    {NoPrice, PriceDict(Missing, Missing), PriceDict(PyInt(0), Missing),
     PriceDict(PyInt(1000), PyInt(0)), PriceDict(PyStr(1), PyInt(-5))}
PricesChoices ==
    {NoPrice, PriceDict(PyInt(500), Missing), PriceDict(PyInt(0), PyInt(0))}
FlatPrices == {Missing, PyInt(0), PyInt(100), NumStr(100)}

ClassifyRecords ==
    {[EmptyRecord EXCEPT !.is_premium = a, !.is_collectible = b, !.is_special = c,
                         !.is_researchable = d, !.price = e, !.prices = f,
                         !.price_credit = g, !.price_gold = h] :
        a \in Flags, b \in Flags, c \in Flags, d \in Flags, e \in PriceChoices,
        f \in PricesChoices, g \in FlatPrices, h \in {Missing, PyInt(0), PyInt(7)}}

\* a researchable tier 5 ship
Researchable ==
    [EmptyRecord EXCEPT !.name = PyStr(1), !.type = PyStr(2), !.tier = PyInt(5),
                        !.is_researchable = PyTrue]

BuildRecords ==
    { \* tier and eligibility
     [Researchable EXCEPT !.tier = Missing],
     [Researchable EXCEPT !.tier = Missing, !.level = PyInt(7),
                          !.name = Missing, !.localized_name = PyStr(5)],
     [Researchable EXCEPT !.tier = PyStr(1), !.level = PyInt(5)],
     [Researchable EXCEPT !.tier = PyInt(11)],
     [Researchable EXCEPT !.tier = PyInt(0), !.level = PyInt(3)],
     [Researchable EXCEPT !.tier = NumStr(10), !.type = Missing,
                          !.ship_type = PyStr(6)],
     [Researchable EXCEPT !.tier = PyInt(1), !.is_premium = PyTrue,
                          !.price = PriceDict(PyInt(1000000), Missing)],
     [Researchable EXCEPT !.is_researchable = Missing],
     [Researchable EXCEPT !.is_researchable = PyFalse,
                          !.price = PriceDict(PyInt(100), PyInt(0))],
     \* identifiers and images
     [Researchable EXCEPT !.ship_id = PyInt(1), !.image = Url(TRUE, ".png", 1)],
     [Researchable EXCEPT !.image = Url(TRUE, "", 2)],
     [Researchable EXCEPT !.ship_id = PyInt(1),
                          !.images = [NoImages EXCEPT !.present = TRUE,
                                                      !.large = Url(FALSE, ".png", 3)]],
     [Researchable EXCEPT !.ship_id = PyInt(2), !.image = EmptyUrl,
                          !.images = [NoImages EXCEPT !.present = TRUE,
                                                      !.other = Url(FALSE, ".png", 5)],
                          !.icon = Url(TRUE, ".jpg", 4)]}

NoFiles == [p \in Paths |-> "absent"]
MirrorPaths == {p \in Paths : p[1] = <<"digits", 1>>}
\* images/ before a run: empty, or holding one image of ship 1
BuildFiles == {NoFiles} \cup {[NoFiles EXCEPT ![p] = "old"] : p \in MirrorPaths}

MirrorUrls == {NoUrl, EmptyUrl, Url(TRUE, ".png", 1)}

\* ships_cache.json before a run of main
MainValues ==
    {RecordValue(CatalogRecord(1)),
     RecordValue([CatalogRecord(1) EXCEPT !.ship_id = Missing]),
     IntValue}
MainFiles ==
    {FileOf("absent", <<>>), FileOf("null", <<>>), FileOf("list", <<>>)}
        \cup {FileOf("dict", c) : c \in CachesOver(ShipNums, MainValues)}

(***************************************************************************)
(* Specifications                                                          *)
(***************************************************************************)
ClassifyIdle == rec = EmptyRecord /\ result = FALSE
CacheIdle ==
    /\ cacheFile = FileOf("absent", <<>>)
    /\ entryFile = cacheFile
    /\ cache = <<>>
    /\ mcache = FileOf("absent", <<>>)
    /\ page = 1
    /\ retTo = "caller"
    /\ events = <<>>
    /\ responses = NoResponses
    /\ rebuilds = 0
BuildIdle == built = <<>> /\ idx = 1 /\ tiers = EmptyTiers /\ tierFiles = NoTierFiles
MirrorIdle == files = NoFiles /\ files0 = files /\ attempts = <<>> /\ call = NoCall

\* a run of main
Init ==
    /\ pc = "main"
    /\ cacheFile \in MainFiles
    /\ entryFile = cacheFile
    /\ cache = <<>>
    /\ mcache = FileOf("absent", <<>>)
    /\ page = 1
    /\ retTo = "caller"
    /\ events = <<>>
    /\ responses = NoResponses
    /\ rebuilds = 0
    /\ ClassifyIdle /\ BuildIdle /\ MirrorIdle

Next ==
    \/ LoadOrUpdate
    \/ Validate
    \/ \E r \in Responses : FetchPage(r.status, r.data, r.page_total)
    \/ FetchFails
    \/ \E outcome \in Outcomes : BuildStep(outcome)
    \/ SaveTiers

Spec == Init /\ [][Next]_vars

\* update_cache_full called on its own
InitRebuild ==
    /\ pc = "fetch"
    /\ cacheFile \in {FileOf("absent", <<>>),
                      FileOf("dict", <<Item(1, RecordValue(CatalogRecord(1)))>>)}
    /\ entryFile = cacheFile
    /\ cache = <<>>
    /\ mcache = FileOf("absent", <<>>)
    /\ page = 1
    /\ retTo = "caller"
    /\ events = <<>>
    /\ responses = NoResponses
    /\ rebuilds = 1
    /\ ClassifyIdle /\ BuildIdle /\ MirrorIdle

NextRebuild ==
    \/ \E r \in Responses : FetchPage(r.status, r.data, r.page_total)
    \/ FetchFails

SpecRebuild == InitRebuild /\ [][NextRebuild]_vars

\* build_tiers_and_images called on any cache of records
InitBuild ==
    /\ pc = "build"
    /\ built \in CachesOver(ShipNums, {RecordValue(r) : r \in BuildRecords})
    /\ idx = 1
    /\ tiers = EmptyTiers
    /\ tierFiles = NoTierFiles
    /\ files \in BuildFiles
    /\ files0 = files
    /\ attempts = <<>>
    /\ call = NoCall
    /\ ClassifyIdle /\ CacheIdle

NextBuild ==
    \/ \E outcome \in Outcomes : BuildStep(outcome)
    \/ SaveTiers

SpecBuild == InitBuild /\ [][NextBuild]_vars

\* is_buyable_or_researchable called on any record
InitClassify ==
    /\ pc = "classify"
    /\ rec \in ClassifyRecords
    /\ result = FALSE
    /\ CacheIdle /\ BuildIdle /\ MirrorIdle

NextClassify == Classify

SpecClassify == InitClassify /\ [][NextClassify]_vars

\* download_image called on any url and output path
InitMirror ==
    /\ pc = "mirror"
    /\ files \in [Paths -> {"absent", "old"}]
    /\ files0 = files
    /\ attempts = <<>>
    /\ call = NoCall
    /\ ClassifyIdle /\ CacheIdle /\ BuildIdle

NextMirror ==
    \E u \in MirrorUrls, path \in MirrorPaths, outcome \in Outcomes :
        CallDownloadImage(u, path, outcome)

SpecMirror == InitMirror /\ [][NextMirror]_vars

(***************************************************************************)
(* Properties                                                              *)
(***************************************************************************)
\* C1: a record whose premium flag is true is never eligible, whatever its
\* researchable, collectible and special flags and its price fields hold.
C1_PremiumNeverEligible ==
    (pc = "classified" /\ rec.is_premium = PyTrue) => result = FALSE

\* a premium record that is researchable and has a positive credit price
C1_Witness ==
    /\ pc = "classified"
    /\ rec.is_premium = PyTrue
    /\ rec.is_researchable = PyTrue
    /\ rec.price = PriceDict(PyInt(1000), PyInt(0))
    /\ result = FALSE

\* a strictly positive number, as C2 reads it
C2_Positive(v) == v[1] = "int" /\ v[2] > 0
\* some price-like field holds one: an entry of price, an entry of prices,
\* price_credit or price_gold
C2_SomePositivePrice(s) ==
    \/ s.price.present /\ (C2_Positive(s.price.credit) \/ C2_Positive(s.price.gold))
    \/ s.prices.present /\ (C2_Positive(s.prices.credit) \/ C2_Positive(s.prices.gold))
    \/ C2_Positive(s.price_credit)
    \/ C2_Positive(s.price_gold)

\* C2: a non-empty record that is not premium, collectible or special is
\* eligible exactly when its researchable flag is true or some price-like
\* field holds a strictly positive number.
C2_EligibleIffResearchableOrPriced ==
    (/\ pc = "classified"
     /\ ~IsEmpty(rec)
     /\ rec.is_premium # PyTrue
     /\ ~Truthy(rec.is_collectible)
     /\ ~Truthy(rec.is_special))
    => (result <=> (rec.is_researchable = PyTrue \/ C2_SomePositivePrice(rec)))

\* the tier C3 resolves: tier, or level when tier is missing, as an integer;
\* 0 when there is none or it is no numeral
C3_Tier(s) ==
    LET raw == IF s.tier = Missing THEN s.level ELSE s.tier
    IN IF raw[1] \in {"int", "numstr", "bool"} THEN raw[2] ELSE 0

C3_InBucket(sid, t) == \E j \in 1..Len(tiers[t]) : tiers[t][j].key = sid

C3_Occurrences(sid) ==
    Cardinality(UNION {{<<t, j>> : j \in {k \in 1..Len(tiers[t]) : tiers[t][k].key = sid}} :
                          t \in Tiers})

\* C3: once build_tiers_and_images has run, a record is in bucket t exactly
\* when it is eligible and its resolved tier is t (so a record with no tier,
\* a non-numeric tier or a tier outside 1..10 is in no bucket), no record is
\* in a bucket twice, and the tier files hold the buckets.
C3_BucketsExact ==
    pc = "done" =>
        /\ \A i \in 1..Len(built) : \A t \in Tiers :
              C3_InBucket(built[i].sid, t)
                  <=> (is_buyable_or_researchable(built[i].v) /\ C3_Tier(built[i].v) = t)
        /\ \A i \in 1..Len(built) : C3_Occurrences(built[i].sid) <= 1
        /\ \A t \in Tiers : tierFiles[t] = [written |-> TRUE, content |-> tiers[t]]

\* a run that placed a record by its level and left a tier-11 record out
C3_Witness ==
    /\ pc = "done"
    /\ Len(tiers[7]) = 1
    /\ \E i \in 1..Len(built) :
          built[i].v.tier = PyInt(11) /\ \A t \in Tiers : ~C3_InBucket(built[i].sid, t)

\* a step that is a download_image call on an output path that exists
C4_CallOnExisting == call'.seq # call.seq /\ call'.existed

\* C4 as claimed: a call on an existing output path sends no request,
\* leaves the files alone and returns success.
C4_SkipAlwaysSucceeds ==
    [][C4_CallOnExisting =>
          (attempts' = attempts /\ files' = files /\ call'.ret = TRUE)]_vars

\* C4 amended: a call on an existing output path sends no request and leaves
\* the files alone; it returns success when the url is a non-empty string
\* and failure when the url is empty or None.
C4_SkipSucceedsWithUrl ==
    [][C4_CallOnExisting =>
          (/\ attempts' = attempts
           /\ files' = files
           /\ call'.ret = (call'.url.kind = "url"))]_vars

\* the second of two calls, both on a path that existed, no request sent
C4_Witness ==
    /\ pc = "mirror"
    /\ call.seq = 0
    /\ call.url.kind = "url"
    /\ call.existed
    /\ call.ret
    /\ files0[call.path] = "old"
    /\ attempts = <<>>

\* the calls and sleeps of a rebuild over n pages
C5_Events(n) ==
    [i \in 1..(2 * n - 1) |->
        IF i % 2 = 1 THEN <<"list", (i + 1) \div 2>> ELSE <<"sleep", 0>>]

\* C5: while every list response is "ok" and reports the same page_total
\* n >= 1, update_cache_full makes at most n list calls; it has returned
\* exactly when the n-th response is in, having called pages 1..n in order
\* with a sleep between consecutive calls, and the cache it saved and
\* returned holds exactly the entries of those pages.
C5_ExactlyNPages ==
    \A n \in 1..MaxPageTotal :
        (responses.totals = {PyInt(n)} /\ ~responses.bad /\ pc # "TransportError")
        => /\ responses.count <= n
           /\ (responses.count = n) <=> (pc = "returned")
           /\ pc = "returned" =>
                 /\ events = C5_Events(n)
                 /\ {cache[i] : i \in 1..Len(cache)}
                      = {Item(k, RecordValue(CatalogRecord(k))) : k \in responses.ids}
                 /\ Len(cache) = Cardinality(responses.ids)
                 /\ cacheFile = FileOf("dict", cache)
                 /\ mcache = FileOf("dict", cache)

\* a rebuild over two pages that brought one ship each
C5_Witness ==
    /\ pc = "returned"
    /\ responses.totals = {PyInt(2)}
    /\ responses.count = 2
    /\ responses.ids = {1, 2}
    /\ Len(cache) = 2
    /\ cacheFile # entryFile

\* the validation C6 names: a mapping whose every value is a record with a
\* ship_id
C6_EveryValueHasId(items) ==
    \A i \in 1..Len(items) : items[i].kind = "dict" /\ items[i].v.ship_id # Missing

\* C6: the cache main hands to build_tiers_and_images has every value a
\* record with a ship_id, and was rebuilt unless the loaded cache file had.
C6_BuiltCacheValidated ==
    pc = "build" =>
        /\ C6_EveryValueHasId(built)
        /\ rebuilds = 0 => (cacheFile.kind = "dict" /\ C6_EveryValueHasId(cacheFile.items))

\* the entry a failed request of record a.key left in a bucket
C7_EntryOf(a, keptUrl) ==
    \E t \in Tiers : \E j \in 1..Len(tiers[t]) :
        LET e == tiers[t][j]
            s == (CHOOSE it \in {built[i] : i \in 1..Len(built)} : it.sid = a.key).v
        IN /\ e.key = a.key
           /\ e.ship_id = (IF s.ship_id # Missing THEN s.ship_id ELSE NumStr(a.key))
           /\ e.name \in {s.name, s.localized_name, s.ship_name}
           /\ e.tier = t
           /\ e.type \in {s.type, s.ship_type}
           /\ e.image = NoFileName
           /\ e.image_url = (IF keptUrl THEN a.url ELSE NoUrl)

\* C7 as claimed: after a failed image request the record's entry is in its
\* bucket with identifier, name, tier and type, and with neither image_url
\* nor image.
C7_FailureDropsBothImageFields ==
    \A k \in 1..Len(attempts) :
        attempts[k].outcome # "ok" => C7_EntryOf(attempts[k], FALSE)

\* C7 amended: after a failed image request the record's entry is in its
\* bucket with identifier, name, tier and type; the local filename (image)
\* is dropped and image_url is kept; the run goes on.
C7_FailureDropsImageOnly ==
    \A k \in 1..Len(attempts) :
        attempts[k].outcome # "ok" =>
            (C7_EntryOf(attempts[k], TRUE) /\ pc \in {"build", "done"})

\* a run whose first record's request failed and which went on to the end
C7_Witness ==
    /\ pc = "done"
    /\ Len(built) = 2
    /\ Len(attempts) >= 1
    /\ attempts[1].outcome = "refused"
    /\ attempts[1].key = built[1].sid
    /\ tierFiles[5].written

C9_ExistingFilesKept == \A p \in Paths : files0[p] # "absent" => files[p] = files0[p]

\* C9 as claimed: no two requests of a run are for the same output path,
\* and no file that existed is overwritten.
C9_OneAttemptPerPath ==
    /\ \A i, j \in 1..Len(attempts) : i < j => attempts[i].path # attempts[j].path
    /\ C9_ExistingFilesKept

\* C9 amended: a request is sent for an output path only while no file is
\* there: a path is requested again only if every earlier request for it
\* failed before anything was written, and a file that existed before the
\* run is neither requested nor overwritten.
C9_NoAttemptOnExistingFile ==
    /\ \A i, j \in 1..Len(attempts) :
          (i < j /\ attempts[i].path = attempts[j].path) => attempts[i].outcome = "refused"
    /\ \A k \in 1..Len(attempts) : files0[attempts[k].path] = "absent"
    /\ C9_ExistingFilesKept

\* two records with one output path, the first request refused; and a
\* third path already on disk
C9_Witness ==
    /\ Len(attempts) = 2
    /\ attempts[1].path = attempts[2].path
    /\ attempts[1].key # attempts[2].key
    /\ attempts[1].outcome = "refused"
    /\ \E p \in Paths : files0[p] = "old"

\* C10: a file is at an output path only if it was there before the run or
\* a request for that path completed.
C10_FileOnlyAfterCompleteDownload ==
    \A p \in Paths :
        files[p] # "absent" =>
            \/ files0[p] # "absent"
            \/ \E k \in 1..Len(attempts) :
                  attempts[k].path = p /\ attempts[k].outcome = "ok"

\* C8: once a list response is not "ok" the run has stopped with the error:
\* the failing call is the last one, the cache file is as it was when the
\* rebuild began, no tier file is written, and nothing happens afterwards.
C8_RemoteErrorAborts ==
    /\ [](responses.bad =>
            /\ pc = "RuntimeError"
            /\ events[Len(events)] = <<"list", page>>
            /\ cacheFile = entryFile
            /\ tierFiles = NoTierFiles)
    /\ [][responses.bad => UNCHANGED vars]_vars

\* an error on the second page of a rebuild that had merged a ship
C8_Witness ==
    /\ responses.bad
    /\ pc = "RuntimeError"
    /\ page = 2
    /\ Len(cache) >= 1
    /\ responses.count = 2

====
